---- MODULE Spec2Model ----
(***************************************************************************)
(* ShiftSync: the shift-state synchronisation protocol.                    *)
(*                                                                         *)
(* The client side (Dashboard.tsx) is modelled from its source: the mount  *)
(* effect (snapshot GET + WebSocket), the ws.onmessage reducer, the action *)
(* handlers and the buttons that offer them.  The server side (ShiftStore, *)
(* RequestArbiter, BroadcastHub) is not part of the sources at hand and is *)
(* modelled from sections 4.1-4.3 and 5 of the specification.              *)
(***************************************************************************)
EXTENDS Integers, Sequences, FiniteSets, TLC

(***************************************************************************)
(* Bounds of the model.                                                    *)
(***************************************************************************)
MaxShifts == 1      \* shifts ever created (ids are never reused)
MaxCommits == 2     \* mutations committed in a behaviour
MaxQueue == 2       \* undelivered push messages per channel
MaxMounted == 2     \* Dashboards mounted at the same time

Users == {"m1", "m2", "alice", "bob"}
Managers == {"m1", "m2"}

\* a Dashboard that takes every token for a manager's
roleAlwaysManager(u) == "manager"

\* jwtDecode(token).role
role(u) == IF u \in Managers THEN "manager" ELSE "employee"

Employees == {u \in Users : role(u) = "employee"}

\* the users whose Dashboard runs in a behaviour
Clients == {"m1", "m2", "alice"}

ShiftIds == 1 .. MaxShifts

\* What a manager can type into the form: title and the two times.  All
\* three inputs are `required`, so the title is never empty; the pair
\* (2, 1) is a malformed range (end <= start).
FormInputs ==
    { [title |-> "A", start_time |-> 1, end_time |-> 2],
      [title |-> "B", start_time |-> 1, end_time |-> 2],
      [title |-> "A", start_time |-> 2, end_time |-> 1] }

NoForm == [title |-> "", start_time |-> 0, end_time |-> 0]

VARIABLES
    store,      \* ShiftStore: id -> Shift, for the shifts that exist
    nextId,     \* ShiftStore: the id the next created shift gets
    commits,    \* ShiftStore: number of committed mutations
    hub,        \* BroadcastHub: the registered channels
    queue,      \* per channel: messages pushed and not yet handled
    snap,       \* per client: the initial GET /shifts/ and its response
    mounted,    \* per client: the Dashboard is mounted
    shifts,     \* per client: useState<Shift[]> (the projection)
    editingId,  \* per client: useState<string | null>, 0 for null
    fresh,      \* per client, history: id -> last event applied that the
                \* pending snapshot cannot contain
    deleted,    \* per client, history: ids whose DELETE_SHIFT was applied
    scenD       \* history: the two concurrent approve-claim requests

vars == << store, nextId, commits, hub, queue, snap, mounted,
           shifts, editingId, fresh, deleted, scenD >>

----------------------------------------------------------------------------
(***************************************************************************)
(* Data.                                                                   *)
(***************************************************************************)

\* types.ts Shift, plus pending_employees which Dashboard.tsx reads
Shift(i, f, a, p, d) ==
    [ _id |-> i, title |-> f.title,
      start_time |-> f.start_time, end_time |-> f.end_time,
      assigned_employees |-> a, pending_employees |-> p, drop_requests |-> d ]

\* the ids of a shift list, and the entries with a given id
Ids(list) == { list[k]._id : k \in DOMAIN list }
Entries(list, i) == SelectSeq(list, LAMBDA s : s._id = i)

Request(kind, i, emp, action, form) ==
    [ kind |-> kind, id |-> i, emp |-> emp, action |-> action, form |-> form ]

\* the GET /shifts/ of a client: not sent, "requested", "resp" (answered with
\* `data`, read at commit number `at`), or "arrived"
NoSnap == [ st |-> "none", data |-> << >>, at |-> 0 ]

\* the shift a push message is about
EvId(m) == IF m.action = "DELETE_SHIFT" THEN m.shift_id ELSE m.shift._id

\* Scenario D as it unfolds: the shift, the users approved, the managers
\* who approved, those whose request succeeded, and whether nothing else
\* was committed on the shift
NoScen == [ id |-> 0, users |-> {}, by |-> {}, ok |-> {}, clean |-> TRUE ]


----------------------------------------------------------------------------
(***************************************************************************)
(* Server side, from the specification (sections 4.1, 4.2, 4.3, 5, 7).     *)
(***************************************************************************)

\* 4.1 get_all(): the collection as an ordered sequence (by id)
get_all(st) ==
    [ k \in 1 .. Cardinality(DOMAIN st) |->
        st[CHOOSE i \in DOMAIN st :
              Cardinality({ j \in DOMAIN st : j <= i }) = k] ]

\* membership sets of a shift with user u moved as the table of 4.2 says
WithSets(s, a, p, d) ==
    [ s EXCEPT !.assigned_employees = a, !.pending_employees = p,
               !.drop_requests = d ]

\* a RequestArbiter whose approve-drop puts the employee back on the roster
\* (the result the table lists for deny-drop)
arbitrateRestoring(s, kind, action, u, emp) ==
    LET a == s.assigned_employees
        p == s.pending_employees
        d == s.drop_requests
    IN  CASE kind = "request" /\ u \notin (a \cup p \cup d) ->
                WithSets(s, a, p \cup {u}, d)
          [] kind = "cancel" /\ u \in p ->
                WithSets(s, a, p \ {u}, d)
          [] kind = "review" /\ action = "approve" /\ emp \in p ->
                WithSets(s, a \cup {emp}, p \ {emp}, d)
          [] kind = "review" /\ action = "deny" /\ emp \in p ->
                WithSets(s, a, p \ {emp}, d)
          [] kind = "request-drop" /\ u \in a ->
                WithSets(s, a \ {u}, p, d \cup {u})
          [] kind = "review-drop" /\ emp \in d ->
                WithSets(s, a \cup {emp}, p, d \ {emp})
          [] OTHER -> s

\* 4.2 RequestArbiter: the result of one membership action of user `u`
\* (the authenticated caller) on shift s; "emp" is the reviewed employee.
\* A result of s itself means InvalidTransition.
arbitrate(s, kind, action, u, emp) ==
    LET a == s.assigned_employees
        p == s.pending_employees
        d == s.drop_requests
    IN  CASE kind = "request" /\ u \notin (a \cup p \cup d) ->
                WithSets(s, a, p \cup {u}, d)
          [] kind = "cancel" /\ u \in p ->
                WithSets(s, a, p \ {u}, d)
          [] kind = "review" /\ action = "approve" /\ emp \in p ->
                WithSets(s, a \cup {emp}, p \ {emp}, d)
          [] kind = "review" /\ action = "deny" /\ emp \in p ->
                WithSets(s, a, p \ {emp}, d)
          [] kind = "request-drop" /\ u \in a ->
                WithSets(s, a \ {u}, p, d \cup {u})
          [] kind = "review-drop" /\ action = "approve" /\ emp \in d ->
                WithSets(s, a, p, d \ {emp})
          [] kind = "review-drop" /\ action = "deny" /\ emp \in d ->
                WithSets(s, a \cup {emp}, p, d \ {emp})
          [] OTHER -> s

ManagerKinds == {"create", "edit", "delete", "review", "review-drop"}
EmployeeKinds == {"request", "cancel", "request-drop"}

Rejected(err, st) == [ res |-> err, store |-> st, events |-> << >> ]

\* 4.1 ShiftStore: validate + mutate + snapshot of one request, as one atomic
\* step (section 5); the events it emits carry the commit number `n`.
Serve(st, nid, n, u, r) ==
    IF r.kind \in ManagerKinds /\ role(u) # "manager" THEN Rejected("Forbidden", st)
    ELSE IF r.kind \in EmployeeKinds /\ role(u) # "employee" THEN Rejected("Forbidden", st)
    ELSE IF r.kind = "create" THEN
        IF r.form.end_time <= r.form.start_time THEN Rejected("InvalidArgument", st)
        ELSE LET s == Shift(nid, r.form, {}, {}, {})
             IN  [ res |-> "ok",
                   store |-> [ i \in DOMAIN st \cup {nid} |->
                                 IF i = nid THEN s ELSE st[i] ],
                   events |-> << [ action |-> "NEW_SHIFT", shift |-> s, seq |-> n ] >> ]
    ELSE IF r.id \notin DOMAIN st THEN Rejected("NotFound", st)
    ELSE IF r.kind = "delete" THEN
        [ res |-> "ok",
          store |-> [ i \in DOMAIN st \ {r.id} |-> st[i] ],
          events |-> << [ action |-> "DELETE_SHIFT", shift_id |-> r.id, seq |-> n ] >> ]
    ELSE IF r.kind = "edit" THEN
        IF r.form.end_time <= r.form.start_time THEN Rejected("InvalidArgument", st)
        ELSE LET s == [ st[r.id] EXCEPT !.title = r.form.title,
                                        !.start_time = r.form.start_time,
                                        !.end_time = r.form.end_time ]
             IN  [ res |-> "ok", store |-> [ st EXCEPT ![r.id] = s ],
                   events |-> << [ action |-> "UPDATE_SHIFT", shift |-> s, seq |-> n ] >> ]
    ELSE LET s == arbitrate(st[r.id], r.kind, r.action, u, r.emp)
         IN  IF s = st[r.id] THEN Rejected("InvalidTransition", st)
             ELSE [ res |-> "ok", store |-> [ st EXCEPT ![r.id] = s ],
                    events |-> << [ action |-> "UPDATE_SHIFT", shift |-> s, seq |-> n ] >> ]

\* 4.3 BroadcastHub.broadcast: every registered channel gets the events, in
\* the order the store produced them
broadcast(q, h, events) ==
    [ c \in Clients |-> IF c \in h THEN q[c] \o events ELSE q[c] ]

----------------------------------------------------------------------------
(***************************************************************************)
(* Client side, from Dashboard.tsx.                                        *)
(***************************************************************************)

\* ws.onmessage with an UPDATE_SHIFT that merges the incoming shift into the
\* entry it replaces, keeping the employees already assigned
onmessageMerging(prev, payload) ==
    IF payload.action = "NEW_SHIFT" THEN
        Append(prev, payload.shift)
    ELSE IF payload.action = "UPDATE_SHIFT" THEN
        [ k \in DOMAIN prev |->
            IF prev[k]._id = payload.shift._id
            THEN [ payload.shift EXCEPT !.assigned_employees =
                                           @ \cup prev[k].assigned_employees ]
            ELSE prev[k] ]
    ELSE IF payload.action = "DELETE_SHIFT" THEN
        SelectSeq(prev, LAMBDA s : s._id # payload.shift_id)
    ELSE prev

\* ws.onmessage: the three setShifts updaters
onmessage(prev, payload) ==
    IF payload.action = "NEW_SHIFT" THEN
        Append(prev, payload.shift)
    ELSE IF payload.action = "UPDATE_SHIFT" THEN
        [ k \in DOMAIN prev |->
            IF prev[k]._id = payload.shift._id THEN payload.shift ELSE prev[k] ]
    ELSE IF payload.action = "DELETE_SHIFT" THEN
        SelectSeq(prev, LAMBDA s : s._id # payload.shift_id)
    ELSE prev

\* a handler that drops the shift from the local list when the server
\* answers that it does not exist
afterActionOnNotFound(prev, r, res) ==
    IF res = "NotFound" THEN SelectSeq(prev, LAMBDA s : s._id # r.id) ELSE prev

\* a handler that applies its own delete to the local list at once
afterActionOptimistic(prev, r, res) ==
    IF r.kind = "delete" /\ res = "ok"
    THEN SelectSeq(prev, LAMBDA s : s._id # r.id) ELSE prev

\* what a handler does to the local list, sending request r and resuming
\* with the outcome `res`: no handler from handleSubmit to handleReviewDrop
\* calls setShifts
afterAction(prev, r, res) == prev

\* the three flags computed for each rendered shift
isAssignedToMe(s, username) == username \in s.assigned_employees
isPendingForMe(s, username) == username \in s.pending_employees
isDropRequested(s, username) == username \in s.drop_requests

\* contextual buttons without the Cancel Claim Request branch: a pending
\* employee is offered Request Shift again
employeeButtonNoCancel(s, username) ==
    IF isDropRequested(s, username) THEN "disabled"
    ELSE IF isAssignedToMe(s, username) THEN "request-drop"
    ELSE "request"

\* Employee View: Contextual Buttons -- the one action offered on shift s
employeeButton(s, username) ==
    IF isDropRequested(s, username) THEN "disabled"
    ELSE IF isAssignedToMe(s, username) THEN "request-drop"
    ELSE IF isPendingForMe(s, username) THEN "cancel"
    ELSE "request"


----------------------------------------------------------------------------
(***************************************************************************)
(* The state machine.                                                      *)
(***************************************************************************)

\* The collection the server holds when the first Dashboard of a behaviour
\* mounts: empty, or one shift published earlier, each employee in one of
\* the four membership states of the table of 4.2.
InitialStores ==
    { << >> } \cup
    { << Shift(1, [title |-> "A", start_time |-> 1, end_time |-> 2],
               { u \in Employees : m[u] = "assigned" },
               { u \in Employees : m[u] = "pending" },
               { u \in Employees : m[u] = "drop_requested" }) >> :
        m \in [ Employees -> {"none", "pending", "assigned", "drop_requested"} ] }

Init ==
    /\ store \in InitialStores
    /\ nextId = Len(store) + 1
    /\ commits = 0
    /\ hub = {}
    /\ queue = [ c \in Clients |-> << >> ]
    /\ snap = [ c \in Clients |-> NoSnap ]
    /\ mounted = [ c \in Clients |-> FALSE ]
    /\ shifts = [ c \in Clients |-> << >> ]
    /\ editingId = [ c \in Clients |-> 0 ]
    /\ fresh = [ c \in Clients |-> << >> ]
    /\ deleted = [ c \in Clients |-> {} ]
    /\ scenD = NoScen

server == << store, nextId, commits >>
history == << fresh, deleted, scenD >>

\* useEffect: the Dashboard mounts with a token, sends GET /shifts/ and
\* opens the WebSocket, waiting for neither
Mount(c) ==
    /\ ~ mounted[c]
    /\ Cardinality({ d \in Clients : mounted[d] }) < MaxMounted
    /\ mounted' = [ mounted EXCEPT ![c] = TRUE ]
    /\ snap' = [ snap EXCEPT ![c] = [ NoSnap EXCEPT !.st = "requested" ] ]
    /\ UNCHANGED << server, hub, queue, shifts, editingId, history >>

\* the server accepts the WebSocket: BroadcastHub.register
WsRegister(c) ==
    /\ mounted[c]
    /\ c \notin hub
    /\ hub' = hub \cup {c}
    /\ UNCHANGED << server, queue, snap, mounted, shifts,
                    editingId, history >>

\* the server answers GET /shifts/ with get_all()
SnapshotServe(c) ==
    /\ snap[c].st = "requested"
    /\ snap' = [ snap EXCEPT ![c] =
                   [ st |-> "resp", data |-> get_all(store), at |-> commits ] ]
    /\ UNCHANGED << server, hub, queue, mounted, shifts,
                    editingId, history >>

\* .then(res => setShifts(res.data))
SnapshotArrive(c) ==
    /\ snap[c].st = "resp"
    /\ shifts' = [ shifts EXCEPT ![c] = snap[c].data ]
    /\ snap' = [ snap EXCEPT ![c] = [ NoSnap EXCEPT !.st = "arrived" ] ]
    /\ UNCHANGED << server, hub, queue, mounted, editingId, history >>

\* ws.onmessage on the oldest undelivered message of the channel
OnMessage(c) ==
    /\ mounted[c]
    /\ queue[c] # << >>
    /\ LET m == Head(queue[c])
           i == EvId(m)
       IN  /\ shifts' = [ shifts EXCEPT ![c] = onmessage(shifts[c], m) ]
           /\ deleted' = [ deleted EXCEPT ![c] =
                             IF m.action = "DELETE_SHIFT" THEN @ \cup {i} ELSE @ ]
           /\ fresh' = [ fresh EXCEPT ![c] =
                           IF snap[c].st = "resp" /\ m.seq > snap[c].at
                           THEN [ j \in DOMAIN @ \cup {i} |->
                                    IF j = i THEN m ELSE @[j] ]
                           ELSE @ ]
    /\ queue' = [ queue EXCEPT ![c] = Tail(@) ]
    /\ UNCHANGED << server, hub, snap, mounted, editingId, scenD >>

\* history of Scenario D: approve-claim requests of two managers for two
\* users pending on one shift, the second sent from a projection that does
\* not show the first yet, and nothing else committed on the shift between
NoteD(c, r, seen, out) ==
    IF r.kind = "review" /\ r.action = "approve" /\ r.id \in DOMAIN store
       /\ scenD.id = 0
       /\ r.emp \in store[r.id].pending_employees
       /\ Cardinality(store[r.id].pending_employees) >= 2
    THEN [ NoScen EXCEPT !.id = r.id, !.users = {r.emp}, !.by = {c},
                         !.ok = IF out.res = "ok" THEN {c} ELSE {} ]
    ELSE IF r.kind = "review" /\ r.action = "approve" /\ r.id = scenD.id
            /\ scenD.clean /\ Cardinality(scenD.by) = 1 /\ c \notin scenD.by
            /\ r.emp \notin scenD.users
            /\ r.emp \in store[r.id].pending_employees
            /\ scenD.users \subseteq seen.pending_employees
    THEN [ scenD EXCEPT !.users = @ \cup {r.emp}, !.by = @ \cup {c},
                        !.ok = IF out.res = "ok" THEN @ \cup {c} ELSE @ ]
    ELSE IF scenD.id # 0 /\ out.res = "ok" /\ r.id = scenD.id
    THEN [ scenD EXCEPT !.clean = FALSE ]
    ELSE scenD

\* a handler: client c sends request r (built from `seen`, the rendered shift
\* it was clicked on), the server serves it (ShiftStore under its lock, then
\* BroadcastHub.broadcast), and the handler resumes after its await with a
\* toast and, for a saved edit, setEditingId(null)
Call(c, r, seen) ==
    /\ mounted[c]
    /\ commits < MaxCommits
    /\ LET out == Serve(store, nextId, commits + 1, c, r)
       IN  /\ \A d \in hub : Len(queue[d]) + Len(out.events) <= MaxQueue
           /\ store' = out.store
           /\ nextId' = IF r.kind = "create" /\ out.res = "ok"
                        THEN nextId + 1 ELSE nextId
           /\ commits' = commits + Len(out.events)
           /\ queue' = broadcast(queue, hub, out.events)
           /\ editingId' = [ editingId EXCEPT ![c] =
                               IF r.kind = "edit" /\ out.res = "ok" THEN 0 ELSE @ ]
           /\ shifts' = [ shifts EXCEPT ![c] = afterAction(@, r, out.res) ]
           /\ scenD' = NoteD(c, r, seen, out)
    /\ UNCHANGED << hub, snap, mounted, fresh, deleted >>

\* handleSubmit: the manager's form, a PUT when editing and a POST otherwise
handleSubmit(c, f) ==
    /\ role(c) = "manager"
    /\ LET r == IF editingId[c] # 0
                THEN Request("edit", editingId[c], "", "", f)
                ELSE Request("create", 0, "", "", f)
       IN  /\ r.kind = "create" => nextId <= MaxShifts
           /\ Call(c, r, NoForm)

\* handleEditClick on the k-th rendered shift
handleEditClick(c, k) ==
    /\ mounted[c]
    /\ role(c) = "manager"
    /\ k \in DOMAIN shifts[c]
    /\ editingId[c] # shifts[c][k]._id
    /\ editingId' = [ editingId EXCEPT ![c] = shifts[c][k]._id ]
    /\ UNCHANGED << server, hub, queue, snap, mounted, shifts, history >>

\* the X button of the form in edit mode
cancelEdit(c) ==
    /\ mounted[c]
    /\ role(c) = "manager"
    /\ editingId[c] # 0
    /\ editingId' = [ editingId EXCEPT ![c] = 0 ]
    /\ UNCHANGED << server, hub, queue, snap, mounted, shifts, history >>

handleDelete(c, k) ==
    /\ role(c) = "manager"
    /\ k \in DOMAIN shifts[c]
    /\ LET r == Request("delete", shifts[c][k]._id, "", "", NoForm)
       IN  Call(c, r, shifts[c][k])

handleRequest(c, k) ==
    /\ role(c) = "employee"
    /\ k \in DOMAIN shifts[c]
    /\ employeeButton(shifts[c][k], c) = "request"
    /\ LET r == Request("request", shifts[c][k]._id, "", "", NoForm)
       IN  Call(c, r, shifts[c][k])

handleDrop(c, k) ==
    /\ role(c) = "employee"
    /\ k \in DOMAIN shifts[c]
    /\ employeeButton(shifts[c][k], c) = "cancel"
    /\ LET r == Request("cancel", shifts[c][k]._id, "", "", NoForm)
       IN  Call(c, r, shifts[c][k])

requestDrop(c, k) ==
    /\ role(c) = "employee"
    /\ k \in DOMAIN shifts[c]
    /\ employeeButton(shifts[c][k], c) = "request-drop"
    /\ LET r == Request("request-drop", shifts[c][k]._id, "", "", NoForm)
       IN  Call(c, r, shifts[c][k])

handleReview(c, k, emp, action) ==
    /\ role(c) = "manager"
    /\ k \in DOMAIN shifts[c]
    /\ emp \in shifts[c][k].pending_employees
    /\ LET r == Request("review", shifts[c][k]._id, emp, action, NoForm)
       IN  Call(c, r, shifts[c][k])

handleReviewDrop(c, k, emp, action) ==
    /\ role(c) = "manager"
    /\ k \in DOMAIN shifts[c]
    /\ emp \in shifts[c][k].drop_requests
    /\ LET r == Request("review-drop", shifts[c][k]._id, emp, action, NoForm)
       IN  Call(c, r, shifts[c][k])

Next ==
    \/ \E c \in Clients : Mount(c)
    \/ \E c \in Clients : WsRegister(c)
    \/ \E c \in Clients : SnapshotServe(c)
    \/ \E c \in Clients : SnapshotArrive(c)
    \/ \E c \in Clients : OnMessage(c)
    \/ \E c \in Clients, f \in FormInputs : handleSubmit(c, f)
    \/ \E c \in Clients, k \in 1 .. MaxShifts + 1 : handleEditClick(c, k)
    \/ \E c \in Clients : cancelEdit(c)
    \/ \E c \in Clients, k \in 1 .. MaxShifts + 1 : handleDelete(c, k)
    \/ \E c \in Clients, k \in 1 .. MaxShifts + 1 : handleRequest(c, k)
    \/ \E c \in Clients, k \in 1 .. MaxShifts + 1 : handleDrop(c, k)
    \/ \E c \in Clients, k \in 1 .. MaxShifts + 1 : requestDrop(c, k)
    \/ \E c \in Clients, k \in 1 .. MaxShifts + 1, emp \in Employees,
          action \in {"approve", "deny"} : handleReview(c, k, emp, action)
    \/ \E c \in Clients, k \in 1 .. MaxShifts + 1, emp \in Employees,
          action \in {"approve", "deny"} : handleReviewDrop(c, k, emp, action)

Spec == Init /\ [][Next]_vars


----------------------------------------------------------------------------
(***************************************************************************)
(* Vocabulary of the properties.                                           *)
(***************************************************************************)

\* the shifts of a list, as a set
Shown(list) == { list[k] : k \in DOMAIN list }

\* the shifts of the canonical collection
Canonical == { store[i] : i \in DOMAIN store }

\* every message sent to client c has been handled and its snapshot is in
Settled(c) ==
    /\ mounted[c] /\ c \in hub
    /\ snap[c].st = "arrived"
    /\ queue[c] = << >>

\* client c takes the snapshot response in this step
Arrives(c) == snap[c].st = "resp" /\ snap'[c].st = "arrived"

\* client c handles a push message in this step
Handles(c) == Len(queue'[c]) < Len(queue[c])

\* list shows what message m says about its shift
Reflects(list, m) ==
    IF m.action = "DELETE_SHIFT" THEN m.shift_id \notin Ids(list)
    ELSE /\ m.shift._id \in Ids(list)
         /\ \A k \in DOMAIN list : list[k]._id = m.shift._id => list[k] = m.shift

\* no user in two of the three membership sets of shift s
Disjoint(s) ==
    /\ s.assigned_employees \cap s.pending_employees = {}
    /\ s.assigned_employees \cap s.drop_requests = {}
    /\ s.pending_employees \cap s.drop_requests = {}

\* at most one of the three flags of the Dashboard of `username` is true
OneFlag(s, username) ==
    Cardinality({ f \in {"assigned", "pending", "drop"} :
        \/ f = "assigned" /\ isAssignedToMe(s, username)
        \/ f = "pending" /\ isPendingForMe(s, username)
        \/ f = "drop" /\ isDropRequested(s, username) }) <= 1

\* the mutation requests a client can send about shift ids 1 .. MaxShifts
Requests ==
    { Request(k, 0, "", "", f) : k \in {"create"}, f \in FormInputs }
    \cup { Request(k, i, "", "", f) : k \in {"edit"}, i \in ShiftIds, f \in FormInputs }
    \cup { Request(k, i, "", "", NoForm) :
             k \in {"delete", "request", "cancel", "request-drop"}, i \in ShiftIds }
    \cup { Request(k, i, e, a, NoForm) :
             k \in {"review", "review-drop"}, i \in ShiftIds, e \in Employees,
             a \in {"approve", "deny"} }

\* the membership state the table of 4.2 lists for the action of request r
\* sent by user u
Listed(s, r, u) ==
    CASE r.kind = "request" ->
            u \notin s.assigned_employees \cup s.pending_employees \cup s.drop_requests
      [] r.kind = "cancel" -> u \in s.pending_employees
      [] r.kind = "review" -> r.emp \in s.pending_employees
      [] r.kind = "request-drop" -> u \in s.assigned_employees
      [] r.kind = "review-drop" -> r.emp \in s.drop_requests
      [] OTHER -> TRUE

----------------------------------------------------------------------------
(***************************************************************************)
(* C1.  Idempotence of the client projection: applying a ChangeEvent       *)
(* twice through the ws.onmessage reducer gives the same shift list as     *)
(* applying it once.  Stated for every client and the message it is about  *)
(* to handle.                                                              *)
(***************************************************************************)
C1_Idempotent ==
    \A c \in Clients :
        queue[c] # << >> =>
            LET m == Head(queue[c])
            IN  onmessage(onmessage(shifts[c], m), m) = onmessage(shifts[c], m)

(***************************************************************************)
(* C2.  Snapshot-then-subscribe: an event that the client handles while    *)
(* its snapshot response is under way, and that the snapshot cannot        *)
(* contain, is still shown by the projection once the snapshot is in: it   *)
(* is merged, not lost or overwritten.                                     *)
(***************************************************************************)
C2_SetupEventsMerged ==
    [][ \A c \in Clients :
          Arrives(c) =>
              \A i \in DOMAIN fresh[c] : Reflects(shifts'[c], fresh[c][i]) ]_vars

(***************************************************************************)
(* C3.  Eventual consistency: a client whose snapshot response and every   *)
(* emitted event have been delivered shows exactly the shifts of the       *)
(* canonical collection, each with the server's field values.              *)
(***************************************************************************)
C3_EventuallyConsistent ==
    \A c \in Clients : Settled(c) => Shown(shifts[c]) = Canonical

(***************************************************************************)
(* C4.  Upsert by id: after a NEW_SHIFT or UPDATE_SHIFT carrying shift X   *)
(* the list has exactly one entry with the id of X, it equals X, and the   *)
(* entries with other ids are unchanged, whether or not the id was there.  *)
(***************************************************************************)
C4_UpsertById ==
    \A c \in Clients :
        (queue[c] # << >> /\ Head(queue[c]).action \in {"NEW_SHIFT", "UPDATE_SHIFT"}) =>
            LET X == Head(queue[c]).shift
                after == onmessage(shifts[c], Head(queue[c]))
            IN  /\ Entries(after, X._id) = << X >>
                /\ SelectSeq(after, LAMBDA s : s._id # X._id)
                     = SelectSeq(shifts[c], LAMBDA s : s._id # X._id)


(***************************************************************************)
(* C5.  Delete propagation: a committed delete reaches every registered    *)
(* channel as a DELETE_SHIFT; handling it removes the shift from the       *)
(* projection and leaves the entries with other ids alone; and from then   *)
(* on the shift never shows in that projection again.                      *)
(***************************************************************************)
C5_DeletePropagation ==
    [][ /\ \A i \in DOMAIN store \ DOMAIN store' :
              \A d \in hub :
                  /\ queue'[d] # << >>
                  /\ queue'[d][Len(queue'[d])].action = "DELETE_SHIFT"
                  /\ queue'[d][Len(queue'[d])].shift_id = i
        /\ \A c \in Clients :
              (Handles(c) /\ Head(queue[c]).action = "DELETE_SHIFT") =>
                  LET i == Head(queue[c]).shift_id
                  IN  /\ i \notin Ids(shifts'[c])
                      /\ SelectSeq(shifts'[c], LAMBDA s : s._id # i)
                           = SelectSeq(shifts[c], LAMBDA s : s._id # i)
        /\ \A c \in Clients : deleted[c] \cap Ids(shifts'[c]) = {} ]_vars

(***************************************************************************)
(* C6.  Event ordering: a client handles the events of its channel in the  *)
(* order the mutations were committed (the one it handles is older than    *)
(* all it has left), and when a client that has its snapshot has handled   *)
(* the event of the last committed mutation, its projection shows that     *)
(* mutation's state of the shift.                                          *)
(***************************************************************************)
C6_CommitOrder ==
    [][ \A c \in Clients :
          Handles(c) =>
              LET m == Head(queue[c])
              IN  /\ queue'[c] = Tail(queue[c])
                  /\ \A k \in DOMAIN queue'[c] : m.seq < queue'[c][k].seq
                  /\ (snap[c].st = "arrived" /\ m.seq = commits) =>
                          Reflects(shifts'[c], m) ]_vars

(***************************************************************************)
(* C7.  Membership disjointness: in every reachable state no user is in    *)
(* two of assigned_employees, pending_employees and drop_requests of a     *)
(* shift, in the store and in every projection, so that at most one of     *)
(* isAssignedToMe, isPendingForMe and isDropRequested is true.             *)
(***************************************************************************)
C7_Disjoint ==
    /\ \A i \in DOMAIN store : Disjoint(store[i])
    /\ \A c \in Clients : \A k \in DOMAIN shifts[c] :
          /\ Disjoint(shifts[c][k])
          /\ OneFlag(shifts[c][k], c)

\* a manager has approved alice's claim and alice has then asked to drop
\* the shift (both events wait in the manager's channel), and alice's own
\* Dashboard shows the drop request
C7_Witness ==
    /\ \E c \in Clients :
          /\ Len(queue[c]) = 2
          /\ queue[c][1].action = "UPDATE_SHIFT"
          /\ "alice" \in queue[c][1].shift.assigned_employees
          /\ queue[c][2].action = "UPDATE_SHIFT"
          /\ "alice" \in queue[c][2].shift.drop_requests
    /\ \E k \in DOMAIN shifts["alice"] :
          /\ isDropRequested(shifts["alice"][k], "alice")
          /\ ~ isAssignedToMe(shifts["alice"][k], "alice")


(***************************************************************************)
(* C8.  Rejected requests change nothing: whatever request a client        *)
(* sends, if the server rejects it the collection is unchanged, no         *)
(* ChangeEvent is broadcast and the sender's projection is unchanged; and  *)
(* a membership action on an existing shift from a state the table does    *)
(* not list for it is rejected as InvalidTransition.                       *)
(***************************************************************************)
C8_RejectedChangesNothing ==
    \A c \in { d \in Clients : mounted[d] } : \A r \in Requests :
        LET out == Serve(store, nextId, commits + 1, c, r)
        IN  /\ out.res # "ok" =>
                /\ out.store = store
                /\ broadcast(queue, hub, out.events) = queue
                /\ afterAction(shifts[c], r, out.res) = shifts[c]
            /\ ( /\ r.kind \in EmployeeKinds \cup {"review", "review-drop"}
                 /\ out.res # "Forbidden"
                 /\ r.id \in DOMAIN store
                 /\ ~ Listed(store[r.id], r, c) ) => out.res = "InvalidTransition"

\* a manager's Dashboard still shows a shift that the store has deleted, so
\* its Delete button sends a request the server rejects as NotFound; and
\* alice's Dashboard offers Request Shift although the store has her pending
C8_Witness ==
    /\ \E c \in Clients : \E k \in DOMAIN shifts[c] :
          /\ mounted[c] /\ role(c) = "manager"
          /\ Serve(store, nextId, commits + 1, c,
                   Request("delete", shifts[c][k]._id, "", "", NoForm)).res = "NotFound"
    /\ \E d \in Clients : \E k \in DOMAIN shifts[d] :
          /\ mounted[d] /\ employeeButton(shifts[d][k], d) = "request"
          /\ role(d) = "employee"
          /\ Serve(store, nextId, commits + 1, d,
                   Request("request", shifts[d][k]._id, "", "", NoForm)).res
               \in {"NotFound", "InvalidTransition"}

(***************************************************************************)
(* C9.  No authoritative local mutation: the local shift list of a client  *)
(* changes only by the snapshot response (to its data) or by a push        *)
(* message (to what ws.onmessage makes of it); a step in which a mutation  *)
(* commits changes no list, the sender's included.                         *)
(***************************************************************************)
C9_NoLocalMutation ==
    [][ /\ \A c \in Clients :
              shifts'[c] # shifts[c] =>
                  \/ Arrives(c) /\ shifts'[c] = snap[c].data
                  \/ /\ Handles(c)
                     /\ shifts'[c] = onmessage(shifts[c], Head(queue[c]))
        /\ commits' # commits => shifts' = shifts ]_vars

\* alice has asked for the shift (only her own request puts her in
\* pending_employees) after her snapshot was read: the store has her
\* pending, the event waits in her channel, and her list does not show it
C9_Witness ==
    /\ Len(queue["alice"]) = 1
    /\ snap["alice"].st = "arrived"
    /\ queue["alice"][1].action = "UPDATE_SHIFT"
    /\ "alice" \in queue["alice"][1].shift.pending_employees
    /\ \E k \in DOMAIN shifts["alice"] :
          /\ shifts["alice"][k]._id = queue["alice"][1].shift._id
          /\ employeeButton(shifts["alice"][k], "alice") = "request"
          /\ commits = 1

(***************************************************************************)
(* C10.  No lost update under concurrent reviews (Scenario D): when two    *)
(* managers have sent approve-claim for two different users pending on     *)
(* one shift, the second without seeing the first, and nothing else has    *)
(* been committed on the shift, both requests succeeded, both users are    *)
(* assigned and neither is pending, and every connected client that has    *)
(* received everything sent to it shows that state of the shift.           *)
(***************************************************************************)
C10_ConcurrentReviews ==
    (scenD.id # 0 /\ scenD.clean /\ Cardinality(scenD.by) = 2) =>
        /\ scenD.ok = scenD.by
        /\ scenD.id \in DOMAIN store
        /\ scenD.users \subseteq store[scenD.id].assigned_employees
        /\ scenD.users \cap store[scenD.id].pending_employees = {}
        /\ \A c \in Clients :
              Settled(c) =>
                  /\ scenD.id \in Ids(shifts[c])
                  /\ \A k \in DOMAIN shifts[c] :
                        shifts[c][k]._id = scenD.id => shifts[c][k] = store[scenD.id]

\* the server part of Scenario D alone
C10_StoreKeepsBoth ==
    (scenD.id # 0 /\ scenD.clean /\ Cardinality(scenD.by) = 2) =>
        /\ scenD.ok = scenD.by
        /\ scenD.id \in DOMAIN store
        /\ scenD.users \subseteq store[scenD.id].assigned_employees
        /\ scenD.users \cap store[scenD.id].pending_employees = {}

(***************************************************************************)
(* C11.  Membership transitions produce the tabulated result: whatever     *)
(* membership request a client of the right role sends about a shift of    *)
(* the store from the state the table lists for it, the request succeeds   *)
(* and the user U it is about (the sender of request-claim, cancel-claim   *)
(* and request-drop, the named employee of a review) ends pending only     *)
(* after request-claim, assigned and not pending after approve-claim, in   *)
(* drop_requests and not assigned after request-drop, assigned and not in  *)
(* drop_requests after deny-drop, in none of the three sets after          *)
(* approve-drop, and not pending after deny-claim and cancel-claim; the    *)
(* memberships of all other users, and the other shifts, are unchanged.    *)
(***************************************************************************)
C11_TabulatedResult ==
    \A c \in { d \in Clients : mounted[d] } : \A r \in Requests :
        ( /\ r.kind \in EmployeeKinds \cup {"review", "review-drop"}
          /\ r.kind \in EmployeeKinds <=> c \notin Managers
          /\ r.id \in DOMAIN store
          /\ Listed(store[r.id], r, c) ) =>
            LET out == Serve(store, nextId, commits + 1, c, r)
                U == IF r.kind \in EmployeeKinds THEN c ELSE r.emp
                t == out.store[r.id]
                a == U \in t.assigned_employees
                p == U \in t.pending_employees
                d == U \in t.drop_requests
            IN  /\ out.res = "ok"
                /\ DOMAIN out.store = DOMAIN store
                /\ r.kind = "request" => p /\ ~ a /\ ~ d
                /\ r.kind = "cancel" => ~ p
                /\ (r.kind = "review" /\ r.action = "approve") => a /\ ~ p
                /\ (r.kind = "review" /\ r.action = "deny") => ~ p
                /\ r.kind = "request-drop" => d /\ ~ a
                /\ (r.kind = "review-drop" /\ r.action = "deny") => a /\ ~ d
                /\ (r.kind = "review-drop" /\ r.action = "approve") =>
                        ~ a /\ ~ p /\ ~ d
                /\ \A v \in Users \ {U} :
                      /\ v \in t.assigned_employees
                            <=> v \in store[r.id].assigned_employees
                      /\ v \in t.pending_employees
                            <=> v \in store[r.id].pending_employees
                      /\ v \in t.drop_requests
                            <=> v \in store[r.id].drop_requests
                /\ \A j \in DOMAIN store \ {r.id} : out.store[j] = store[j]

\* Scenario B has run: alice, assigned, asked to drop the shift and a
\* mounted manager denied it; both events wait in a channel and the store
\* has her assigned again
C11_Witness ==
    /\ \E c \in Clients :
          /\ Len(queue[c]) = 2
          /\ queue[c][1].action = "UPDATE_SHIFT"
          /\ "alice" \in queue[c][1].shift.drop_requests
          /\ "alice" \notin queue[c][1].shift.assigned_employees
          /\ queue[c][2].action = "UPDATE_SHIFT"
          /\ "alice" \in queue[c][2].shift.assigned_employees
          /\ "alice" \notin queue[c][2].shift.drop_requests
          /\ queue[c][2].shift._id \in DOMAIN store
          /\ store[queue[c][2].shift._id] = queue[c][2].shift
    /\ \E m \in Managers \cap Clients : mounted[m]

(***************************************************************************)
(* C12.  The employee action offered matches the arbiter's table: for an   *)
(* employee U and a shift S of U's projection, Request Shift is offered    *)
(* only when U is in none of the three sets, Cancel Claim Request only     *)
(* when U is pending and neither assigned nor drop-requested, Request to   *)
(* Drop only when U is assigned and not drop-requested, and no action      *)
(* when U is in drop_requests; and whenever the projection of S equals     *)
(* the store's state of S, the offered action is not rejected (no          *)
(* InvalidTransition).                                                     *)
(***************************************************************************)
C12_OfferedMatchesTable ==
    \A c \in Clients \ Managers : \A k \in DOMAIN shifts[c] :
        LET s == shifts[c][k]
            b == employeeButton(s, c)
            a == c \in s.assigned_employees
            p == c \in s.pending_employees
            d == c \in s.drop_requests
        IN  /\ b \in {"request", "cancel", "request-drop", "disabled"}
            /\ b = "request" => ~ a /\ ~ p /\ ~ d
            /\ b = "cancel" => p /\ ~ a /\ ~ d
            /\ b = "request-drop" => a /\ ~ d
            /\ d => b = "disabled"
            /\ ( /\ b # "disabled"
                 /\ s._id \in DOMAIN store
                 /\ store[s._id] = s ) =>
                    Serve(store, nextId, commits + 1, c,
                          Request(b, s._id, "", "", NoForm)).res = "ok"

\* alice has asked for a shift and has handled the event of her request:
\* her Dashboard shows the store's state of the shift, with her pending,
\* and offers Cancel Claim Request
C12_Witness ==
    /\ Settled("alice")
    /\ commits >= 1
    /\ \E k \in DOMAIN shifts["alice"] :
          LET s == shifts["alice"][k]
          IN  /\ s._id \in DOMAIN store
              /\ store[s._id] = s
              /\ s.pending_employees = {"alice"}
              /\ employeeButton(s, "alice") = "cancel"
    /\ \A m \in Managers \cap Clients : ~ mounted[m]

(***************************************************************************)
(* C13.  Role-gated actions: the Dashboard of a user who is not a manager  *)
(* can fire none of the handlers that create, edit or delete a shift or    *)
(* review a claim or a drop request (the ones that name another user's     *)
(* membership), only handleRequest, handleDrop and requestDrop, whose      *)
(* requests name no user; and whatever request an employee sends, the      *)
(* step that serves it changes nothing in the store but the sender's own   *)
(* membership on the shift of the request.                                 *)
(***************************************************************************)
C13_RoleGated ==
    \A c \in Clients \ Managers :
        /\ ~ ENABLED (\E f \in FormInputs : handleSubmit(c, f))
        /\ ~ ENABLED (\E k \in 1 .. MaxShifts + 1 : handleEditClick(c, k))
        /\ ~ ENABLED cancelEdit(c)
        /\ ~ ENABLED (\E k \in 1 .. MaxShifts + 1 : handleDelete(c, k))
        /\ ~ ENABLED (\E k \in 1 .. MaxShifts + 1, emp \in Employees,
                         action \in {"approve", "deny"} :
                           \/ handleReview(c, k, emp, action)
                           \/ handleReviewDrop(c, k, emp, action))
        /\ mounted[c] =>
              \A r \in Requests :
                  LET out == Serve(store, nextId, commits + 1, c, r)
                  IN  /\ DOMAIN out.store = DOMAIN store
                      /\ \A i \in DOMAIN store :
                            /\ out.store[i].title = store[i].title
                            /\ out.store[i].start_time = store[i].start_time
                            /\ out.store[i].end_time = store[i].end_time
                            /\ out.store[i].assigned_employees \ {c}
                                  = store[i].assigned_employees \ {c}
                            /\ out.store[i].pending_employees \ {c}
                                  = store[i].pending_employees \ {c}
                            /\ out.store[i].drop_requests \ {c}
                                  = store[i].drop_requests \ {c}
                            /\ i # r.id => out.store[i] = store[i]

\* alice, the only user with a mounted Dashboard, has asked to drop a
\* shift on which bob has a claim pending: the store has her drop request
\* and bob's claim, and her Dashboard has handled the event
C13_Witness ==
    /\ Settled("alice")
    /\ commits >= 1
    /\ \A m \in Managers \cap Clients : ~ mounted[m]
    /\ \E k \in DOMAIN shifts["alice"] :
          LET s == shifts["alice"][k]
          IN  /\ s._id \in DOMAIN store
              /\ store[s._id] = s
              /\ s.drop_requests = {"alice"}
              /\ s.pending_employees = {"bob"}
              /\ employeeButton(s, "alice") = "disabled"

(***************************************************************************)
(* C14.  Unique ids in the projection: in every reachable state the local  *)
(* shift list of a client has no two entries with the same _id.            *)
(***************************************************************************)
C14_UniqueIds ==
    \A c \in Clients : \A j, k \in DOMAIN shifts[c] :
        shifts[c][j]._id = shifts[c][k]._id => j = k

(***************************************************************************)
(* C15.  Edit target validity: whenever the form of a manager's Dashboard  *)
(* is in edit mode, editingId is the id of a shift of its local list, so   *)
(* that Save Changes never sends an update for a shift the client has      *)
(* removed from its projection.                                            *)
(***************************************************************************)
C15_EditTargetListed ==
    \A c \in Clients : editingId[c] # 0 => editingId[c] \in Ids(shifts[c])

====
